---------------------------- MODULE Spec2Model ----------------------------
(***************************************************************************)
(* Model of the mini 2048 game of src/src/App.tsx: the grid rotation, the *)
(* row collapse, the move dispatch, the tile spawner, the game-over       *)
(* predicate and the undo history held by the App component.              *)
(*                                                                         *)
(* A grid (Map2048) is a sequence of rows, a row a sequence of cells; the  *)
(* empty cell (null in the source) is written Null.  Indices are 1-based   *)
(* here and 0-based in the source.                                         *)
(***************************************************************************)
EXTENDS Integers, Sequences, FiniteSets, TLC

VARIABLES
    map,          \* App state: the current grid (useState, App.tsx:122)
    undoHistory,  \* App state: the stack of earlier grids (App.tsx:125)
    isGameOver,   \* value of checkGameOver(map) at the last render (App.tsx:126)
    undoDisabled, \* the disabled attribute of the Undo button at the last render (App.tsx:164)
    bound,        \* the map and isGameOver in the closure of the keydown listener now registered (App.tsx:129-147)
    past,         \* history variable: the events handled so far, each with the state it found
    row,          \* argument of moveRowLeft
    rowOut,       \* what moveRowLeft returned for row
    rotOrig,      \* the grid the rotations started from
    rotCur,       \* the grid after the rotations of rotLog
    rotLog,       \* the degrees applied so far, oldest first
    spIn,         \* argument of addRandomTile
    spOut,        \* what addRandomTile returned for spIn
    mvIn,         \* first argument of moveMapIn2048Rule
    mvOut         \* the direction moveMapIn2048Rule was called with, and what it returned

gameVars == <<map, undoHistory, isGameOver, undoDisabled, bound, past>>
rowVars == <<row, rowOut>>
rotVars == <<rotOrig, rotCur, rotLog>>
spawnVars == <<spIn, spOut>>
moveVars == <<mvIn, mvOut>>
vars == <<map, undoHistory, isGameOver, undoDisabled, bound, past, row, rowOut, rotOrig, rotCur, rotLog, spIn, spOut, mvIn, mvOut>>

-----------------------------------------------------------------------------
(* Bounds of the model. *)

\* input events explored after each starting state
MaxEvents == 2
\* successful moves among them
MaxMoves == 1
\* longest row given to moveRowLeft
MaxRowLen == 4
\* largest number of rows and of columns of the grids given to the pure functions
MaxDim == 2
\* longest sequence of rotations
MaxRot == 4

-----------------------------------------------------------------------------
(* Values. *)

\* the empty cell: null of type Cell (statetypes.ts:1)
Null == 0

\* the tile that ends the game (App.tsx:118)
Threshold == 128

Direction == {"up", "left", "right", "down"}

Degree == {0, 90, 180, 270}

\* defaultMap with a first row of three cells
defaultMapRagged == [r \in 1..4 |-> [c \in 1..(IF r = 1 THEN 3 ELSE 4) |-> Null]]

defaultMap == [r \in 1..4 |-> [c \in 1..4 |-> Null]]

\* rotateDegreeMap with the degrees of up and down exchanged
rotateDegreeMapUpDown == [up |-> 270, right |-> 180, down |-> 90, left |-> 0]

rotateDegreeMap == [up |-> 90, right |-> 180, down |-> 270, left |-> 0]

revertDegreeMap == [up |-> 270, right |-> 180, down |-> 90, left |-> 0]

\* the keys handleKey accepts and the direction of each (App.tsx:131-138)
dirMap == [ArrowUp |-> "up", ArrowDown |-> "down", ArrowLeft |-> "left", ArrowRight |-> "right"]

ArrowKeys == {"ArrowUp", "ArrowRight", "ArrowDown", "ArrowLeft"}

\* the keys of the model: the four arrows and one key that is none of them
Keys == ArrowKeys \cup {"Enter"}

\* the outcomes of Math.floor(Math.random() * max)
getRandomInt(max) == 0..(max - 1)

\* the outcomes of a draw of 2 or 6
TileValuesTwoOrSix == {2, 6}

\* the outcomes of Math.random() < 0.9 ? 2 : 4
TileValues == {2, 4}

-----------------------------------------------------------------------------
(* Grid Rotator. *)

validateMapIsNByM(m) ==
    LET firstColumnCount == Len(m[1])
    IN  \A r \in 1..Len(m) : Len(m[r]) = firstColumnCount

\* rotateMapCounterClockwise with the rows of the 90 degree case mirrored but not transposed
rotateMapMirror90(m, degree) ==
    LET rowLength == Len(m)
        columnLength == Len(m[1])
    IN  CASE degree = 0 -> m
          [] degree = 90 ->
                [rowIndex \in 1..rowLength |->
                    [columnIndex \in 1..columnLength |-> m[rowIndex][columnLength - columnIndex + 1]]]
          [] degree = 180 ->
                [rowIndex \in 1..rowLength |->
                    [columnIndex \in 1..columnLength |->
                        m[rowLength - rowIndex + 1][columnLength - columnIndex + 1]]]
          [] degree = 270 ->
                [columnIndex \in 1..columnLength |->
                    [rowIndex \in 1..rowLength |-> m[rowLength - rowIndex + 1][columnIndex]]]

rotateMapCounterClockwise(m, degree) ==
    LET rowLength == Len(m)
        columnLength == Len(m[1])
    IN  CASE degree = 0 -> m
          [] degree = 90 ->
                [columnIndex \in 1..columnLength |->
                    [rowIndex \in 1..rowLength |-> m[rowIndex][columnLength - columnIndex + 1]]]
          [] degree = 180 ->
                [rowIndex \in 1..rowLength |->
                    [columnIndex \in 1..columnLength |->
                        m[rowLength - rowIndex + 1][columnLength - columnIndex + 1]]]
          [] degree = 270 ->
                [columnIndex \in 1..columnLength |->
                    [rowIndex \in 1..rowLength |-> m[rowLength - rowIndex + 1][columnIndex]]]

-----------------------------------------------------------------------------
(* Row Collapser. *)

\* reduceCell with the merged tile kept as the pending tile, so that it can merge again
reduceCellCascade(acc, cell) ==
    IF cell = Null THEN acc
    ELSE IF acc.lastCell = Null THEN [acc EXCEPT !.lastCell = cell]
    ELSE IF acc.lastCell = cell THEN [result |-> acc.result, lastCell |-> cell * 2]
    ELSE [result |-> Append(acc.result, acc.lastCell), lastCell |-> cell]

\* reduceCell with a merge that keeps the value of the tiles instead of doubling it
reduceCellKeepsValue(acc, cell) ==
    IF cell = Null THEN acc
    ELSE IF acc.lastCell = Null THEN [acc EXCEPT !.lastCell = cell]
    ELSE IF acc.lastCell = cell THEN [result |-> Append(acc.result, cell), lastCell |-> Null]
    ELSE [result |-> Append(acc.result, acc.lastCell), lastCell |-> cell]

\* the callback of row.reduce: one cell folded into the accumulator
reduceCell(acc, cell) ==
    IF cell = Null THEN acc
    ELSE IF acc.lastCell = Null THEN [acc EXCEPT !.lastCell = cell]
    ELSE IF acc.lastCell = cell THEN [result |-> Append(acc.result, cell * 2), lastCell |-> Null]
    ELSE [result |-> Append(acc.result, acc.lastCell), lastCell |-> cell]

RECURSIVE reduceRow(_, _)
\* row.reduce(callback, acc) over the first n cells of r
reduceRow(r, n) ==
    IF n = 0 THEN [lastCell |-> Null, result |-> <<>>]
    ELSE reduceCell(reduceRow(r, n - 1), r[n])

\* moveRowLeft with isMoved comparing the row with the unpadded result, whose
\* missing cells are undefined and so differ from every cell
moveRowLeftUnpadded(r) ==
    LET reduced == reduceRow(r, Len(r))
        result == IF reduced.lastCell # Null
                  THEN Append(reduced.result, reduced.lastCell)
                  ELSE reduced.result
        resultRow == [i \in 1..Len(r) |-> IF i <= Len(result) THEN result[i] ELSE Null]
    IN  [result |-> resultRow,
         isMoved |-> \E i \in 1..Len(r) : i > Len(result) \/ r[i] # result[i]]

moveRowLeft(r) ==
    LET reduced == reduceRow(r, Len(r))
        result == IF reduced.lastCell # Null
                  THEN Append(reduced.result, reduced.lastCell)
                  ELSE reduced.result
        resultRow == [i \in 1..Len(r) |-> IF i <= Len(result) THEN result[i] ELSE Null]
    IN  [result |-> resultRow,
         isMoved |-> \E i \in 1..Len(r) : r[i] # resultRow[i]]

-----------------------------------------------------------------------------
(* Move Engine. *)

\* moveLeft reporting a move only when every row has moved
moveLeftEveryRow(m) ==
    LET movedRows == [r \in 1..Len(m) |-> moveRowLeft(m[r])]
    IN  [result |-> [r \in 1..Len(m) |-> movedRows[r].result],
         isMoved |-> \A r \in 1..Len(m) : movedRows[r].isMoved]

moveLeft(m) ==
    LET movedRows == [r \in 1..Len(m) |-> moveRowLeft(m[r])]
    IN  [result |-> [r \in 1..Len(m) |-> movedRows[r].result],
         isMoved |-> \E r \in 1..Len(m) : movedRows[r].isMoved]

\* threw: the call ended in Error("Map is not N by M") and returned nothing
moveMapIn2048Rule(m, direction) ==
    IF ~validateMapIsNByM(m)
    THEN [result |-> m, isMoved |-> FALSE, threw |-> TRUE]
    ELSE LET rotatedMap == rotateMapCounterClockwise(m, rotateDegreeMap[direction])
             moved == moveLeft(rotatedMap)
         IN  [result |-> rotateMapCounterClockwise(moved.result, revertDegreeMap[direction]),
              isMoved |-> moved.isMoved,
              threw |-> FALSE]

-----------------------------------------------------------------------------
(* Tile Spawner. *)

RECURSIVE emptyInRow(_, _, _)
\* the coordinates of the empty cells among the first n cells of row i of m:
\* the inner forEach
emptyInRow(m, i, n) ==
    IF n = 0 THEN <<>>
    ELSE LET before == emptyInRow(m, i, n - 1)
         IN  IF m[i][n] = Null THEN Append(before, <<i, n>>) ELSE before

RECURSIVE emptyCells(_, _)
\* the coordinates of the empty cells of the first n rows of m, row by row:
\* the outer forEach
emptyCells(m, n) ==
    IF n = 0 THEN <<>>
    ELSE emptyCells(m, n - 1) \o emptyInRow(m, n, Len(m[n]))

\* the list empty of addRandomTile
empty(m) == emptyCells(m, Len(m))

\* addRandomTile with the drawn index taken among all cells, not among the empty ones
addRandomTileAnyCell(m, index, value) ==
    IF Len(empty(m)) = 0 THEN m
    ELSE LET i == (index \div Len(m[1])) + 1
             j == (index % Len(m[1])) + 1
         IN  [r \in 1..Len(m) |->
                [c \in 1..Len(m[r]) |->
                    IF r = i /\ c = j THEN value ELSE m[r][c]]]

\* index is the outcome of getRandomInt(empty.length), counted from 0,
\* value the outcome of the draw of 2 or 4
addRandomTile(m, index, value) ==
    IF Len(empty(m)) = 0 THEN m
    ELSE LET ij == empty(m)[index + 1]
         IN  [r \in 1..Len(m) |->
                [c \in 1..Len(m[r]) |->
                    IF r = ij[1] /\ c = ij[2] THEN value ELSE m[r][c]]]

\* the draws addRandomTile can make on m; on a full grid it draws nothing
spawnDraws(m) ==
    IF Len(empty(m)) = 0 THEN {<<0, 2>>}
    ELSE getRandomInt(Len(empty(m))) \X TileValues

-----------------------------------------------------------------------------
(* Game-over predicate. *)

RECURSIVE flat(_, _)
\* map.flat() of the first n rows
flat(m, n) == IF n = 0 THEN <<>> ELSE flat(m, n - 1) \o m[n]

\* checkGameOver looking for a 256 tile
checkGameOver256(m) ==
    LET cells == flat(m, Len(m))
    IN  \E i \in 1..Len(cells) : cells[i] = 256

checkGameOver(m) ==
    LET cells == flat(m, Len(m))
    IN  \E i \in 1..Len(cells) : cells[i] = 128

-----------------------------------------------------------------------------
(* Game State Machine: the App component. *)

\* handleKey pushing the slide result instead of the grid it found
handleKeyPushesResult(m, h, over, key, index, value) ==
    IF key \notin ArrowKeys THEN [map |-> m, undoHistory |-> h]
    ELSE IF over THEN [map |-> m, undoHistory |-> h]
    ELSE LET moved == moveMapIn2048Rule(m, dirMap[key])
         IN  IF moved.threw THEN [map |-> m, undoHistory |-> h]
             ELSE IF moved.isMoved
             THEN [map |-> addRandomTile(moved.result, index, value),
                   undoHistory |-> Append(h, moved.result)]
             ELSE [map |-> m, undoHistory |-> h]

\* handleKey without the test of isMoved
handleKeyIgnoresIsMoved(m, h, over, key, index, value) ==
    IF key \notin ArrowKeys THEN [map |-> m, undoHistory |-> h]
    ELSE IF over THEN [map |-> m, undoHistory |-> h]
    ELSE LET moved == moveMapIn2048Rule(m, dirMap[key])
         IN  IF moved.threw THEN [map |-> m, undoHistory |-> h]
             ELSE [map |-> addRandomTile(moved.result, index, value),
                   undoHistory |-> Append(h, m)]

\* handleKey without the test of isGameOver
handleKeyIgnoresGameOver(m, h, over, key, index, value) ==
    IF key \notin ArrowKeys THEN [map |-> m, undoHistory |-> h]
    ELSE LET moved == moveMapIn2048Rule(m, dirMap[key])
         IN  IF moved.threw THEN [map |-> m, undoHistory |-> h]
             ELSE IF moved.isMoved
             THEN [map |-> addRandomTile(moved.result, index, value),
                   undoHistory |-> Append(h, m)]
             ELSE [map |-> m, undoHistory |-> h]

\* handleKey adopting the slide result without a new tile
handleKeyNoSpawn(m, h, over, key, index, value) ==
    IF key \notin ArrowKeys THEN [map |-> m, undoHistory |-> h]
    ELSE IF over THEN [map |-> m, undoHistory |-> h]
    ELSE LET moved == moveMapIn2048Rule(m, dirMap[key])
         IN  IF moved.threw THEN [map |-> m, undoHistory |-> h]
             ELSE IF moved.isMoved
             THEN [map |-> moved.result, undoHistory |-> Append(h, m)]
             ELSE [map |-> m, undoHistory |-> h]

\* the state the two setters of handleKey leave (App.tsx:130-144); index and
\* value are the draws of the spawner
handleKey(m, h, over, key, index, value) ==
    IF key \notin ArrowKeys THEN [map |-> m, undoHistory |-> h]
    ELSE IF over THEN [map |-> m, undoHistory |-> h]
    ELSE LET moved == moveMapIn2048Rule(m, dirMap[key])
         IN  IF moved.threw THEN [map |-> m, undoHistory |-> h]
             ELSE IF moved.isMoved
             THEN [map |-> addRandomTile(moved.result, index, value),
                   undoHistory |-> Append(h, m)]
             ELSE [map |-> m, undoHistory |-> h]

\* handleUndo restoring the last snapshot without removing it
handleUndoKeepsHistory(m, h) ==
    IF Len(h) = 0 THEN [map |-> m, undoHistory |-> h]
    ELSE [map |-> h[Len(h)], undoHistory |-> h]

\* handleUndo returning early when the game is over, as handleKey does
handleUndoBlockedWhenOver(m, h) ==
    IF Len(h) = 0 \/ checkGameOver(m) THEN [map |-> m, undoHistory |-> h]
    ELSE [map |-> h[Len(h)], undoHistory |-> SubSeq(h, 1, Len(h) - 1)]

\* handleUndo without the test of the length: on an empty history it sets the
\* map to undoHistory[-1], which is undefined, here the grid of no rows
handleUndoNoGuard(m, h) ==
    IF Len(h) = 0 THEN [map |-> <<>>, undoHistory |-> h]
    ELSE [map |-> h[Len(h)], undoHistory |-> SubSeq(h, 1, Len(h) - 1)]

\* the state the two setters of handleUndo leave (App.tsx:150-154)
handleUndo(m, h) ==
    IF Len(h) = 0 THEN [map |-> m, undoHistory |-> h]
    ELSE [map |-> h[Len(h)], undoHistory |-> SubSeq(h, 1, Len(h) - 1)]

\* handleKey reaches the spawner: the key is an arrow, the game is not over
\* and the slide moved a tile
spawns(m, over, key) ==
    key \in ArrowKeys /\ ~over /\ moveMapIn2048Rule(m, dirMap[key]).isMoved

\* the draws handleKey makes: those of the spawner when it is called, none otherwise
keyDraws(m, over, key) ==
    IF spawns(m, over, key)
    THEN spawnDraws(moveMapIn2048Rule(m, dirMap[key]).result)
    ELSE {<<0, 2>>}

\* initialMaps with one spawn instead of two
initialMapsOneSpawn ==
    {addRandomTile(defaultMap, d1[1], d1[2]) : d1 \in spawnDraws(defaultMap)}

\* the disabled attribute the render gives the Undo button (App.tsx:164)
undoButtonDisabled(h) == Len(h) = 0

\* the effect depending on isGameOver alone
effectDepsWithoutMap(m, over) == <<over>>

\* the dependency array of the effect that registers the keydown listener (App.tsx:147)
effectDeps(m, over) == <<m, over>>

\* the closure of the registered listener after the render of (m, over) that
\* follows the render of (m0, over0): the effect runs again, and registers a
\* listener closed over m and over, when its dependencies have changed
useEffect(b, m0, over0, m, over) ==
    IF effectDeps(m, over) = effectDeps(m0, over0)
    THEN b
    ELSE [map |-> m, isGameOver |-> over]

\* the grids the useState initialiser can produce (App.tsx:122-124)
initialMaps ==
    {addRandomTile(addRandomTile(defaultMap, d1[1], d1[2]), d2[1], d2[2]) :
        d1 \in spawnDraws(defaultMap),
        d2 \in (getRandomInt(Len(empty(defaultMap)) - 1) \X TileValues)}

-----------------------------------------------------------------------------
(* Starting states.  The game needs at least thirty successful moves to    *)
(* build a 128 tile, so the exploration starts from the states one played  *)
(* game passes through: the game is replayed with the handlers above from  *)
(* the initial grid InitialDraws produces, and every starting state is the *)
(* state after a prefix of GameScript.                                     *)

\* the draws of the two initial spawns of the replayed game
InitialDraws == <<<<0, 4>>, <<0, 2>>>>

\* the replayed game: key, spawn index, spawn value of each move
GameScript == <<
    <<"ArrowDown", 5, 4>>, <<"ArrowDown", 12, 4>>, <<"ArrowLeft", 8, 4>>,
    <<"ArrowDown", 9, 4>>, <<"ArrowRight", 6, 2>>, <<"ArrowDown", 8, 2>>,
    <<"ArrowLeft", 3, 4>>, <<"ArrowUp", 0, 2>>, <<"ArrowDown", 9, 4>>,
    <<"ArrowLeft", 2, 4>>, <<"ArrowDown", 5, 2>>, <<"ArrowRight", 7, 4>>,
    <<"ArrowDown", 3, 4>>, <<"ArrowRight", 1, 4>>, <<"ArrowLeft", 2, 2>>,
    <<"ArrowDown", 2, 4>>, <<"ArrowRight", 0, 4>>, <<"ArrowUp", 3, 4>>,
    <<"ArrowRight", 4, 2>>, <<"ArrowLeft", 2, 4>>, <<"ArrowRight", 2, 4>>,
    <<"ArrowLeft", 1, 4>>, <<"ArrowDown", 2, 4>>, <<"ArrowLeft", 2, 4>>,
    <<"ArrowUp", 1, 4>>, <<"ArrowDown", 0, 4>>, <<"ArrowRight", 0, 4>>,
    <<"ArrowDown", 0, 4>>, <<"ArrowRight", 3, 4>>, <<"ArrowLeft", 2, 4>>,
    <<"ArrowDown", 2, 4>>, <<"ArrowDown", 2, 4>>, <<"ArrowDown", 1, 2>>,
    <<"ArrowDown", 4, 4>>, <<"ArrowRight", 0, 4>>, <<"ArrowRight", 4, 4>>,
    <<"ArrowUp", 1, 4>>, <<"ArrowLeft", 7, 4>>, <<"ArrowDown", 6, 4>>,
    <<"ArrowLeft", 4, 4>>, <<"ArrowRight", 6, 4>>
    >>

RECURSIVE PlayOn(_, _, _)
\* the state n - i further moves of GameScript lead to from state s, which
\* the first i moves led to; a move that changes nothing, or whose draw the
\* spawner cannot make, ends the replay
PlayOn(s, i, n) ==
    IF i = n THEN s
    ELSE LET e == GameScript[i + 1]
             over == checkGameOver(s.map)
             t == handleKey(s.map, s.undoHistory, over, e[1], e[2], e[3])
         IN  IF <<e[2], e[3]>> \notin keyDraws(s.map, over, e[1]) THEN s
             ELSE IF t.map = s.map THEN s
             ELSE PlayOn(t, i + 1, n)

\* the state after the first n moves of GameScript
Replay(n) ==
    PlayOn([map |-> addRandomTile(addRandomTile(defaultMap, InitialDraws[1][1], InitialDraws[1][2]),
                                  InitialDraws[2][1], InitialDraws[2][2]),
            undoHistory |-> <<>>], 0, n)

\* the prefixes of GameScript the exploration starts after: the initial
\* state, a full board, the last state before the 128 tile, and the end
StartAfter == {0, 26, 40, 41}

-----------------------------------------------------------------------------
(* Idle values of the variables a specification does not use. *)

IdleGame ==
    /\ map = defaultMap
    /\ undoHistory = <<>>
    /\ isGameOver = FALSE
    /\ undoDisabled = TRUE
    /\ bound = [map |-> defaultMap, isGameOver |-> FALSE]
    /\ past = <<>>

IdleRow == row = <<>> /\ rowOut = <<>>

IdleRot == rotOrig = <<>> /\ rotCur = <<>> /\ rotLog = <<>>

IdleSpawn == spIn = <<>> /\ spOut = <<>>

IdleMove == mvIn = <<>> /\ mvOut = <<>>

-----------------------------------------------------------------------------
(* Specification of the game.  An input event is one step: the handler runs *)
(* to completion on the state of the last render, and the render its        *)
(* setters cause, which recomputes isGameOver and binds the handlers to the  *)
(* new state, is over before the next event arrives.                         *)

\* The root App is mounted in and the delivery of events to it are not among
\* the sources; the model takes them from section 5 of the specification:
\* the transition an input event triggers runs to completion before any
\* other input is processed.  So the listener an event finds is the one the
\* effect of the last render has scheduled, never the one that was
\* registered while that render was under way.
listenerAtNextEvent(registered, scheduled) == scheduled

\* the first render and its effect: what App derives from the state (App.tsx:126-147, 164)
Mounted ==
    /\ isGameOver = checkGameOver(map)
    /\ undoDisabled = undoButtonDisabled(undoHistory)
    /\ bound = [map |-> map, isGameOver |-> isGameOver]

\* the render the setters of a handler cause, and its effect, with next the
\* state the setters leave
Render(next) ==
    /\ map' = next.map
    /\ undoHistory' = next.undoHistory
    /\ isGameOver' = checkGameOver(next.map)
    /\ undoDisabled' = undoButtonDisabled(next.undoHistory)
    /\ bound' = listenerAtNextEvent(bound,
                    useEffect(bound, map, isGameOver, next.map, checkGameOver(next.map)))

Init ==
    /\ \E n \in StartAfter :
          /\ map = Replay(n).map
          /\ undoHistory = Replay(n).undoHistory
    /\ Mounted
    /\ past = <<>>
    /\ IdleRow /\ IdleRot /\ IdleSpawn /\ IdleMove

\* the events of past that pushed a grid: the successful moves
movesDone == Cardinality({i \in 1..Len(past) : past[i].pushed})

\* the event with the state it found
Event(kind, key, index, value) ==
    [kind |-> kind, key |-> key, index |-> index, value |-> value,
     pushed |-> kind = "key" /\ spawns(bound.map, bound.isGameOver, key),
     map |-> map, undoHistory |-> undoHistory, isGameOver |-> isGameOver]

\* a keydown event: the registered listener, which is handleKey closed over
\* bound and appending to the history of the state, then the render its
\* setters cause
KeyDown(key) ==
    /\ Len(past) < MaxEvents
    /\ spawns(bound.map, bound.isGameOver, key) => movesDone < MaxMoves
    /\ \E d \in keyDraws(bound.map, bound.isGameOver, key) :
          /\ Render(handleKey(bound.map, undoHistory, bound.isGameOver, key, d[1], d[2]))
          /\ past' = Append(past, Event("key", key, d[1], d[2]))
    /\ UNCHANGED <<rowVars, rotVars, spawnVars, moveVars>>

\* a click on the Undo button: handleUndo, then the render its setters cause
Undo ==
    /\ Len(past) < MaxEvents
    /\ Render(handleUndo(map, undoHistory))
    /\ past' = Append(past, Event("undo", "none", 0, 2))
    /\ UNCHANGED <<rowVars, rotVars, spawnVars, moveVars>>

Next ==
    \/ \E key \in Keys : KeyDown(key)
    \/ Undo

Spec == Init /\ [][Next]_vars

-----------------------------------------------------------------------------
(* Specification of the construction: every grid the initialiser can       *)
(* produce, and undo requests in the state it leaves.                      *)

InitApp ==
    /\ map \in initialMaps
    /\ undoHistory = <<>>
    /\ Mounted
    /\ past = <<>>
    /\ IdleRow /\ IdleRot /\ IdleSpawn /\ IdleMove

NextApp == Undo

SpecApp == InitApp /\ [][NextApp]_vars

-----------------------------------------------------------------------------
(* Specification of the Row Collapser: moveRowLeft applied to a row. *)

\* the cells of the rows given to moveRowLeft
RowCells == {Null, 2, 4, 8}

Rows == UNION {[1..n -> RowCells] : n \in 0..MaxRowLen}

NotCalled == [called |-> FALSE, result |-> <<>>, isMoved |-> FALSE]

InitRow ==
    /\ row \in Rows
    /\ rowOut = NotCalled
    /\ IdleGame /\ IdleRot /\ IdleSpawn /\ IdleMove

Collapse ==
    /\ ~rowOut.called
    /\ rowOut' = [called |-> TRUE,
                  result |-> moveRowLeft(row).result,
                  isMoved |-> moveRowLeft(row).isMoved]
    /\ UNCHANGED <<row, gameVars, rotVars, spawnVars, moveVars>>

NextRow == Collapse

SpecRow == InitRow /\ [][NextRow]_vars

-----------------------------------------------------------------------------
(* Specification of the Grid Rotator: rotateMapCounterClockwise applied    *)
(* again and again to a rectangular grid.                                  *)

\* the rectangular grids of up to MaxDim rows and columns with cells from a set
Grids(cells) ==
    UNION {[1..R -> [1..C -> cells]] : <<R, C>> \in (1..MaxDim) \X (1..MaxDim)}

\* the cells of the grids given to rotateMapCounterClockwise
RotCells == {Null, 2}

InitRot ==
    /\ rotOrig \in Grids(RotCells)
    /\ rotCur = rotOrig
    /\ rotLog = <<>>
    /\ IdleGame /\ IdleRow /\ IdleSpawn /\ IdleMove

Rotate(degree) ==
    /\ Len(rotLog) < MaxRot
    /\ rotCur' = rotateMapCounterClockwise(rotCur, degree)
    /\ rotLog' = Append(rotLog, degree)
    /\ UNCHANGED <<rotOrig, gameVars, rowVars, spawnVars, moveVars>>

NextRot == \E degree \in Degree : Rotate(degree)

SpecRot == InitRot /\ [][NextRot]_vars

-----------------------------------------------------------------------------
(* Specification of the Tile Spawner: addRandomTile applied to a grid.     *)

\* the cells of the grids given to addRandomTile
SpawnCells == {Null, 2, 4}

NotSpawned == [called |-> FALSE, result |-> <<>>]

InitSpawn ==
    /\ spIn \in Grids(SpawnCells)
    /\ spOut = NotSpawned
    /\ IdleGame /\ IdleRow /\ IdleRot /\ IdleMove

Spawn ==
    /\ ~spOut.called
    /\ \E d \in spawnDraws(spIn) :
          spOut' = [called |-> TRUE, result |-> addRandomTile(spIn, d[1], d[2])]
    /\ UNCHANGED <<spIn, gameVars, rowVars, rotVars, moveVars>>

NextSpawn == Spawn

SpecSpawn == InitSpawn /\ [][NextSpawn]_vars

-----------------------------------------------------------------------------
(* Specification of the Move Engine: moveMapIn2048Rule applied to a        *)
(* rectangular grid in one direction.                                       *)

\* the cells of the grids given to moveMapIn2048Rule
MoveCells == {Null, 2, 4}

NotMoved == [called |-> FALSE, direction |-> "none", result |-> <<>>, isMoved |-> FALSE, threw |-> FALSE]

InitMove ==
    /\ mvIn \in Grids(MoveCells)
    /\ mvOut = NotMoved
    /\ IdleGame /\ IdleRow /\ IdleRot /\ IdleSpawn

Move(direction) ==
    /\ ~mvOut.called
    /\ LET moved == moveMapIn2048Rule(mvIn, direction)
       IN  mvOut' = [called |-> TRUE, direction |-> direction, result |-> moved.result,
                     isMoved |-> moved.isMoved, threw |-> moved.threw]
    /\ UNCHANGED <<mvIn, gameVars, rowVars, rotVars, spawnVars>>

NextMove == \E direction \in Direction : Move(direction)

SpecMove == InitMove /\ [][NextMove]_vars

-----------------------------------------------------------------------------
(* Specification of the Move Engine and the game side by side: a behaviour *)
(* is one call of moveMapIn2048Rule on a rectangular grid, or a game.       *)

InitMass == Init \/ InitMove

NextMass ==
    \/ IdleMove /\ Next
    \/ ~IdleMove /\ NextMove

SpecMass == InitMass /\ [][NextMass]_vars

-----------------------------------------------------------------------------
(* Vocabulary of the properties of the game. *)

\* the state event i of past left behind
After(i) ==
    IF i < Len(past)
    THEN [map |-> past[i + 1].map, undoHistory |-> past[i + 1].undoHistory,
          isGameOver |-> past[i + 1].isGameOver]
    ELSE [map |-> map, undoHistory |-> undoHistory, isGameOver |-> isGameOver]

\* the state event e found
Before(e) == [map |-> e.map, undoHistory |-> e.undoHistory, isGameOver |-> e.isGameOver]

\* grid m holds a tile of value v
HasTile(m, v) == \E r \in 1..Len(m) : \E c \in 1..Len(m[r]) : m[r][c] = v

\* the cells on which grids a and b of the same shape differ
DiffCells(a, b) == {rc \in (1..Len(a)) \X (1..Len(a[1])) : a[rc[1]][rc[2]] # b[rc[1]][rc[2]]}

\* event e is applyMove in one of the four directions
IsMove(e) == e.kind = "key" /\ e.key \in ArrowKeys

\* what the move of event e reports for the grid the event found
Slide(e) == moveMapIn2048Rule(e.map, dirMap[e.key])

\* event e is a successful move: a move in a state that is not Over with didChange = true
IsSuccessfulMove(e) == IsMove(e) /\ ~HasTile(e.map, Threshold) /\ Slide(e).isMoved

-----------------------------------------------------------------------------
(* Properties of the game, checked under Spec. *)

\* C1: a successful move followed immediately by undo leaves the grid and
\* UndoHistory as they were before the move, whatever tile was spawned.
C1_MoveThenUndoRestores ==
    \A i \in 1..(Len(past) - 1) :
        (IsSuccessfulMove(past[i]) /\ past[i + 1].kind = "undo")
            => /\ After(i + 1).map = past[i].map
               /\ After(i + 1).undoHistory = past[i].undoHistory

\* a successful move has been followed by undo
C1_Witness ==
    /\ Len(past) = 2
    /\ IsSuccessfulMove(past[1])
    /\ past[2].kind = "undo"
    /\ past[2].map # past[1].map

\* C2: a move whose slide reports didChange = false changes neither the
\* grid, nor UndoHistory, nor the Over flag.
C2_BlockedMoveChangesNothing ==
    \A i \in 1..Len(past) :
        (IsMove(past[i]) /\ ~Slide(past[i]).isMoved)
            => After(i) = Before(past[i])

\* a move in a state that is not Over met a direction in which nothing can move
C2_Witness ==
    /\ Len(past) >= 1
    /\ IsMove(past[Len(past)])
    /\ ~past[Len(past)].isGameOver
    /\ ~Slide(past[Len(past)]).isMoved
    /\ undoHistory # <<>>

\* C3: UndoHistory is the stack of the pre-move grids of the successful
\* moves not undone: a successful move appends the grid it found, an undo on
\* a non-empty history removes the last entry and adopts it, every other
\* event leaves the history alone; the bottom of the stack is the initial
\* grid, so undoing every move returns to it with an empty history.
C3_HistoryIsStackOfPreMoveGrids ==
    /\ \A i \in 1..Len(past) :
          LET e == past[i]
          IN  IF IsSuccessfulMove(e)
              THEN After(i).undoHistory = Append(e.undoHistory, e.map)
              ELSE IF e.kind = "undo" /\ Len(e.undoHistory) > 0
              THEN /\ After(i).undoHistory = SubSeq(e.undoHistory, 1, Len(e.undoHistory) - 1)
                   /\ After(i).map = e.undoHistory[Len(e.undoHistory)]
              ELSE After(i).undoHistory = e.undoHistory
    /\ undoHistory = <<>> => map = Replay(0).map
    /\ undoHistory # <<>> => undoHistory[1] = Replay(0).map

\* two undos in a row have each taken an entry from the history
C3_Witness ==
    /\ Len(past) = 2
    /\ past[1].kind = "undo"
    /\ past[2].kind = "undo"
    /\ Len(past[2].undoHistory) > 0
    /\ Len(undoHistory) = Len(past[1].undoHistory) - 2

\* C4: in a state whose grid holds a 128 tile a move in any direction
\* leaves the grid and UndoHistory unchanged.
C4_MoveWhenOverIsNoOp ==
    \A i \in 1..Len(past) :
        (IsMove(past[i]) /\ HasTile(past[i].map, Threshold))
            => /\ After(i).map = past[i].map
               /\ After(i).undoHistory = past[i].undoHistory

\* a move arrived in the Over state in a direction in which the slide would
\* have changed the grid
C4_Witness ==
    /\ Len(past) >= 1
    /\ IsMove(past[Len(past)])
    /\ HasTile(past[Len(past)].map, Threshold)
    /\ Slide(past[Len(past)]).isMoved

\* C5: the Over flag is true exactly when the current grid holds a 128 tile.
C5_OverIffThreshold == isGameOver <=> HasTile(map, Threshold)

\* a move has built the 128 tile and the undo after it has taken it away
C5_Witness ==
    /\ Len(past) = 2
    /\ IsSuccessfulMove(past[1])
    /\ past[2].kind = "undo"
    /\ past[2].isGameOver
    /\ HasTile(past[2].map, Threshold)
    /\ ~isGameOver

\* C6: a successful move pushes the grid it found and adopts the slide
\* result with exactly one of its empty cells set to 2 or 4; the slide
\* result of a successful move has an empty cell.
C6_SuccessfulMoveSpawnsOneTile ==
    \A i \in 1..Len(past) :
        IsSuccessfulMove(past[i])
            => LET slid == Slide(past[i]).result
                   now == After(i).map
               IN  /\ After(i).undoHistory = Append(past[i].undoHistory, past[i].map)
                   /\ HasTile(slid, Null)
                   /\ Cardinality(DiffCells(slid, now)) = 1
                   /\ \A rc \in DiffCells(slid, now) :
                         /\ slid[rc[1]][rc[2]] = Null
                         /\ now[rc[1]][rc[2]] \in {2, 4}

\* a move succeeded on a board without an empty cell
C6_Witness ==
    /\ Len(past) >= 1
    /\ IsSuccessfulMove(past[Len(past)])
    /\ ~HasTile(past[Len(past)].map, Null)

-----------------------------------------------------------------------------
(* Properties of the Tile Spawner, checked under SpecSpawn. *)

\* the cells of grid m that are empty
EmptyOf(m) == {rc \in (1..Len(m)) \X (1..Len(m[1])) : m[rc[1]][rc[2]] = Null}

\* C7: on a grid with an empty cell spawn changes exactly one cell, which
\* was empty and now holds 2 or 4; on a full grid it returns the grid as it
\* is; every empty cell can receive the tile.
C7_SpawnChangesOneEmptyCell ==
    /\ spOut.called =>
          IF EmptyOf(spIn) = {}
          THEN spOut.result = spIn
          ELSE /\ Len(spOut.result) = Len(spIn)
               /\ \A r \in 1..Len(spIn) : Len(spOut.result[r]) = Len(spIn[r])
               /\ Cardinality(DiffCells(spIn, spOut.result)) = 1
               /\ \A rc \in DiffCells(spIn, spOut.result) :
                     /\ rc \in EmptyOf(spIn)
                     /\ spOut.result[rc[1]][rc[2]] \in {2, 4}
    /\ \A rc \in EmptyOf(spIn) :
          \E d \in spawnDraws(spIn) :
              DiffCells(spIn, addRandomTile(spIn, d[1], d[2])) = {rc}

\* spawn was applied to a grid with tiles and exactly one empty cell
C7_Witness ==
    /\ spOut.called
    /\ Cardinality(EmptyOf(spIn)) = 1
    /\ Len(spIn) * Len(spIn[1]) = 4
    /\ EmptyOf(spOut.result) = {}

-----------------------------------------------------------------------------
(* Properties of the Row Collapser, checked under SpecRow. *)

\* C8: the collapsed row has the length of the row, its tiles at the head
\* and its empty cells after them, and a merged tile does not merge again:
\* [v,v,v,-] gives [2v,v,-,-], [v,v,v,v] gives [2v,2v,-,-] and [v,v,2v,-]
\* gives [2v,2v,-,-].
C8_MergeOncePerPass ==
    rowOut.called =>
        /\ Len(rowOut.result) = Len(row)
        /\ \A i \in 1..Len(row) : \A j \in i..Len(row) :
              rowOut.result[i] = Null => rowOut.result[j] = Null
        /\ \A v \in {2, 4} :
              /\ row = <<v, v, v, Null>> => rowOut.result = <<2 * v, v, Null, Null>>
              /\ row = <<v, v, v, v>> => rowOut.result = <<2 * v, 2 * v, Null, Null>>
              /\ row = <<v, v, 2 * v, Null>> => rowOut.result = <<2 * v, 2 * v, Null, Null>>

\* the row [2,2,4,-], whose merged 4 meets a 4, has been collapsed
C8_Witness == rowOut.called /\ row = <<2, 2, 4, Null>> /\ rowOut.isMoved

\* row r has no empty cell and no two adjacent equal tiles
IsStuck(r) ==
    /\ \A i \in 1..Len(r) : r[i] # Null
    /\ \A i \in 1..(Len(r) - 1) : r[i] # r[i + 1]

\* row r has only empty cells
IsAllEmpty(r) == \A i \in 1..Len(r) : r[i] = Null

\* C9: a row without empty cells and without two adjacent equal tiles, and
\* a row of empty cells only, come back unchanged with changed = false.
C9_StuckOrEmptyRowUnchanged ==
    (rowOut.called /\ (IsStuck(row) \/ IsAllEmpty(row)))
        => /\ rowOut.result = row
           /\ ~rowOut.isMoved

\* a row of four tiles, no two neighbours equal, has been collapsed
C9_Witness ==
    /\ rowOut.called
    /\ Len(row) = 4
    /\ IsStuck(row)

-----------------------------------------------------------------------------
(* Properties of the Grid Rotator, checked under SpecRot. *)

\* grid m has R rows of C cells
HasShape(m, R, C) == Len(m) = R /\ \A r \in 1..Len(m) : Len(m[r]) = C

\* C10: four rotations by 90 degrees give back the grid; one rotation by 90
\* or 270 degrees turns an R x C grid into a C x R grid, one by 0 or 180
\* degrees leaves it R x C.
C10_FourQuarterTurnsAreIdentity ==
    /\ rotLog = <<90, 90, 90, 90>> => rotCur = rotOrig
    /\ (Len(rotLog) = 1 /\ rotLog[1] \in {90, 270})
          => HasShape(rotCur, Len(rotOrig[1]), Len(rotOrig))
    /\ (Len(rotLog) = 1 /\ rotLog[1] \in {0, 180})
          => HasShape(rotCur, Len(rotOrig), Len(rotOrig[1]))

\* a grid that is not square and not uniform has been rotated four times by 90 degrees
C10_Witness ==
    /\ rotLog = <<90, 90, 90, 90>>
    /\ Len(rotOrig) # Len(rotOrig[1])
    /\ HasTile(rotOrig, Null)
    /\ HasTile(rotOrig, 2)

-----------------------------------------------------------------------------
(* Properties of the construction, checked under SpecApp. *)

\* the cells of grid m that hold a tile
TilesOf(m) == {rc \in (1..Len(m)) \X (1..Len(m[1])) : m[rc[1]][rc[2]] # Null}

\* C11: the initial state has an empty UndoHistory and a 4 x 4 grid with
\* exactly two tiles, each 2 or 4, and fourteen empty cells; it is not Over
\* and undo changes nothing in it.
C11_InitialState ==
    /\ past = <<>> =>
          /\ undoHistory = <<>>
          /\ HasShape(map, 4, 4)
          /\ Cardinality(TilesOf(map)) = 2
          /\ \A rc \in TilesOf(map) : map[rc[1]][rc[2]] \in {2, 4}
          /\ Cardinality({rc \in (1..4) \X (1..4) : map[rc[1]][rc[2]] = Null}) = 14
          /\ ~isGameOver
          /\ ~HasTile(map, Threshold)
    /\ \A i \in 1..Len(past) : After(i) = Before(past[i])

\* undo has been requested in an initial state with a 2 and a 4
C11_Witness ==
    /\ Len(past) = 1
    /\ past[1].kind = "undo"
    /\ HasTile(map, 2)
    /\ HasTile(map, 4)


-----------------------------------------------------------------------------
(* Claim C12. *)

\* C12: an undo that finds the UndoHistory empty leaves the grid, the empty
\* history and the Over flag as they were, and the Undo button is enabled
\* exactly when the UndoHistory is not empty.
C12_EmptyUndoIsNoOp ==
    /\ \A i \in 1..Len(past) :
          (past[i].kind = "undo" /\ past[i].undoHistory = <<>>) =>
             /\ After(i).map = past[i].map
             /\ After(i).undoHistory = <<>>
             /\ After(i).isGameOver = past[i].isGameOver
    /\ ~undoDisabled <=> undoHistory # <<>>

\* an undo found the history empty, and a later move has enabled the button
C12_Witness ==
    /\ Len(past) = 2
    /\ past[1].kind = "undo"
    /\ past[1].undoHistory = <<>>
    /\ past[2].pushed
    /\ ~undoDisabled

-----------------------------------------------------------------------------
(* Claim C13. *)

\* event e is an undo that found the game Over and the UndoHistory not empty
IsUndoInOver(e) ==
    /\ e.kind = "undo"
    /\ e.isGameOver
    /\ HasTile(e.map, Threshold)
    /\ e.undoHistory # <<>>

\* C13: Over blocks only moves: an undo that finds the game Over and the
\* UndoHistory not empty removes the most recent snapshot, makes it the
\* current grid, and leaves the Over flag equal to whether the restored grid
\* holds a 128.
C13_UndoAcceptedWhenOver ==
    \A i \in 1..Len(past) :
        IsUndoInOver(past[i]) =>
           LET h == past[i].undoHistory
           IN  /\ After(i).map = h[Len(h)]
               /\ After(i).undoHistory = SubSeq(h, 1, Len(h) - 1)
               /\ After(i).isGameOver = HasTile(After(i).map, Threshold)

\* the last event was an undo in Over, and it has restored another grid
C13_Witness ==
    /\ past # <<>>
    /\ IsUndoInOver(past[Len(past)])
    /\ map # past[Len(past)].map
    /\ Len(undoHistory) = Len(past[Len(past)].undoHistory) - 1

-----------------------------------------------------------------------------
(* Properties of the Move Engine, checked under SpecMove. *)

\* sequence s from its last element to its first
Reverse(s) == [i \in 1..Len(s) |-> s[Len(s) - i + 1]]

\* column c of grid m, from row 0 down
Column(m, c) == [r \in 1..Len(m) |-> m[r][c]]

\* row r collapsed toward its first cell, and toward its last cell
TowardFirst(r) == moveRowLeft(r).result
TowardLast(r) == Reverse(moveRowLeft(Reverse(r)).result)

\* the slide of grid m in direction d written out per direction
DirectSlide(m, d) ==
    CASE d = "left" -> [r \in 1..Len(m) |-> TowardFirst(m[r])]
      [] d = "right" -> [r \in 1..Len(m) |-> TowardLast(m[r])]
      [] d = "up" ->
            [r \in 1..Len(m) |-> [c \in 1..Len(m[1]) |-> TowardFirst(Column(m, c))[r]]]
      [] d = "down" ->
            [r \in 1..Len(m) |-> [c \in 1..Len(m[1]) |-> TowardLast(Column(m, c))[r]]]

\* C14: on every rectangular grid and in each direction moveMapIn2048Rule
\* returns the direct slide: left and right collapse every row toward column
\* 0 and toward the last column, up and down collapse every column toward
\* row 0 and toward the last row; the result has the dimensions of the input.
C14_MoveIsDirectSlide ==
    mvOut.called =>
       /\ ~mvOut.threw
       /\ mvOut.result = DirectSlide(mvIn, mvOut.direction)
       /\ HasShape(mvOut.result, Len(mvIn), Len(mvIn[1]))

\* a grid that is not square has been moved down and two of its tiles merged
C14_Witness ==
    /\ mvOut.called
    /\ mvOut.direction = "down"
    /\ Len(mvIn) # Len(mvIn[1])
    /\ mvIn[1][1] = 2
    /\ mvOut.result[Len(mvIn)][1] = 4

\* the grid moveLeft is given when mvIn is moved in direction d
Rotated(d) == rotateMapCounterClockwise(mvIn, rotateDegreeMap[d])

\* C15: on every rectangular grid and in every direction, isMoved is true
\* exactly when the returned grid differs from the input in some cell, which
\* is exactly when some collapsed row differs from the row it was made from.
C15_IsMovedIffGridDiffers ==
    mvOut.called =>
       /\ mvOut.isMoved <=> DiffCells(mvIn, mvOut.result) # {}
       /\ mvOut.isMoved <=>
             \E r \in 1..Len(Rotated(mvOut.direction)) :
                moveRowLeft(Rotated(mvOut.direction)[r]).result # Rotated(mvOut.direction)[r]

\* a move to the left has changed the second row and left the first as it was
C15_Witness ==
    /\ mvOut.called
    /\ mvOut.direction = "left"
    /\ Len(mvIn) = 2
    /\ mvOut.result[1] = mvIn[1]
    /\ mvOut.result[2] # mvIn[2]
    /\ mvOut.isMoved

-----------------------------------------------------------------------------
(* Claim C16. *)

\* the state the handler of event e leaves when it computes from the state e found
Handled(e) ==
    IF e.kind = "key"
    THEN handleKey(e.map, e.undoHistory, e.isGameOver, e.key, e.index, e.value)
    ELSE handleUndo(e.map, e.undoHistory)

-----------------------------------------------------------------------------
(* Claim C17. *)

\* C17: the current grid and every grid of the UndoHistory have four rows of
\* four cells, and no move of the game has ended in the error "Map is not N
\* by M".
C17_GridsStayFourByFour ==
    /\ HasShape(map, 4, 4)
    /\ \A k \in 1..Len(undoHistory) : HasShape(undoHistory[k], 4, 4)
    /\ \A i \in 1..Len(past) :
          /\ HasShape(past[i].map, 4, 4)
          /\ IsMove(past[i]) => ~Slide(past[i]).threw

\* a successful move up or down and then an undo, with grids on the history
C17_Witness ==
    /\ Len(past) = 2
    /\ past[1].pushed
    /\ past[1].key \in {"ArrowUp", "ArrowDown"}
    /\ past[2].kind = "undo"
    /\ undoHistory # <<>>

-----------------------------------------------------------------------------
(* Claim C18. *)

\* C18: no grid of the UndoHistory holds a 128; when the game is Over the
\* UndoHistory is not empty; and an undo that finds the game Over leaves it
\* not Over.
C18_OverAlwaysUndoable ==
    /\ \A k \in 1..Len(undoHistory) : ~HasTile(undoHistory[k], Threshold)
    /\ isGameOver => undoHistory # <<>>
    /\ \A i \in 1..Len(past) :
          (past[i].kind = "undo" /\ past[i].isGameOver) =>
             /\ past[i].undoHistory # <<>>
             /\ ~After(i).isGameOver
             /\ ~HasTile(After(i).map, Threshold)

\* a move has made the 128 and ended the game, and one undo has made the
\* game Playing again
C18_Witness ==
    /\ Len(past) = 2
    /\ past[1].pushed
    /\ ~past[1].isGameOver
    /\ past[2].kind = "undo"
    /\ past[2].isGameOver
    /\ ~isGameOver

-----------------------------------------------------------------------------
(* Claim C19. *)

\* the values a tile can have: the powers of two from 2 to the threshold
PowersOfTwo == {2, 4, 8, 16, 32, 64, 128}

-----------------------------------------------------------------------------
(* Claim C20, checked under SpecMass. *)

RECURSIVE SumOfCells(_, _)
\* the sum of the first n cells of sequence s, an empty cell counting 0
SumOfCells(s, n) == IF n = 0 THEN 0 ELSE SumOfCells(s, n - 1) + s[n]

\* the sum of the tiles of grid m
Mass(m) == SumOfCells(flat(m, Len(m)), Len(flat(m, Len(m))))

\* the number of tiles of grid m
Tiles(m) == Cardinality(TilesOf(m))

\* the lines of grid m a slide in direction d collapses, each from the wall
\* the tiles move toward
Lines(m, d) ==
    CASE d = "left" -> m
      [] d = "right" -> [r \in 1..Len(m) |-> Reverse(m[r])]
      [] d = "up" -> [c \in 1..Len(m[1]) |-> Column(m, c)]
      [] d = "down" -> [c \in 1..Len(m[1]) |-> Reverse(Column(m, c))]

RECURSIVE MergesInLine(_, _)
\* the merges among the first n cells of line r: the cells that meet an equal pending tile
MergesInLine(r, n) ==
    IF n = 0 THEN 0
    ELSE MergesInLine(r, n - 1)
         + (IF r[n] # Null /\ reduceRow(r, n - 1).lastCell = r[n] THEN 1 ELSE 0)

RECURSIVE MergesInLines(_, _)
\* the merges in the first n of the lines ls
MergesInLines(ls, n) ==
    IF n = 0 THEN 0
    ELSE MergesInLines(ls, n - 1) + MergesInLine(ls[n], Len(ls[n]))

\* the merges of the slide of grid m in direction d
Merges(m, d) == MergesInLines(Lines(m, d), Len(Lines(m, d)))

\* C20: moveMapIn2048Rule keeps the sum of the tiles and lowers their number
\* by the number of merges, on every rectangular grid and in every
\* direction; and every successful move of the game raises the sum of the
\* current grid by 2 or by 4, its number of tiles being one more than after
\* the slide.
C20_MoveConservesMass ==
    /\ (~IdleMove /\ mvOut.called) =>
          /\ Mass(mvOut.result) = Mass(mvIn)
          /\ Tiles(mvOut.result) = Tiles(mvIn) - Merges(mvIn, mvOut.direction)
          /\ Tiles(mvOut.result) <= Tiles(mvIn)
    /\ \A i \in 1..Len(past) :
          past[i].pushed =>
             /\ Mass(After(i).map) - Mass(past[i].map) \in {2, 4}
             /\ Tiles(After(i).map) = Tiles(past[i].map) - Merges(past[i].map, dirMap[past[i].key]) + 1

\* a slide that merged two pairs of tiles into two
C20_Witness ==
    /\ ~IdleMove
    /\ mvOut.called
    /\ Tiles(mvIn) = 4
    /\ Tiles(mvOut.result) = 2
    /\ Mass(mvOut.result) = Mass(mvIn)
=============================================================================
